---- MODULE Spec2Model ----
(***************************************************************************)
(* Model of ToDoApp.py: a Flask application keeping an in-memory to-do     *)
(* list in the module-level list `tasks`, with the routes                  *)
(*   GET /, POST /add, POST /delete/<int:task_id>, GET /health.            *)
(* A string is a sequence of one-character strings, so that emptiness,     *)
(* HTML escaping and the decimal form of an index are computed.            *)
(***************************************************************************)
EXTENDS Integers, Sequences, FiniteSets, TLC

VARIABLES
    tasks,          \* the module-level list `tasks`
    request,        \* the request handled last
    response,       \* the response to it
    before,         \* history: `tasks` when the last request arrived
    addRequests,    \* history: number of POST /add requests handled
    nonEmptyAdds,   \* history: those of them with a present, non-empty task
    deleteSeen,     \* history: some POST /delete/... request was handled
    tasks0,         \* threaded run: `tasks` when the two requests arrived
    wseg,           \* threaded run: path segment of each worker's request
    pc,             \* threaded run: position of each worker in delete_task
    lenAtCheck,     \* threaded run: len(tasks) read by the worker's check
    lenAtPop,       \* threaded run: len(tasks) when the worker called pop
    wresp           \* threaded run: response given to each worker

vars == <<tasks, request, response, before, addRequests, nonEmptyAdds,
          deleteSeen, tasks0, wseg, pc, lenAtCheck, lenAtPop, wresp>>

seqVars == <<request, response, before, addRequests, nonEmptyAdds, deleteSeen>>
raceVars == <<tasks0, wseg, pc, lenAtCheck, lenAtPop, wresp>>

-----------------------------------------------------------------------------
(* Bounds *)

MaxAdds == 3

\* Task texts submitted by clients: empty, plain, and needing HTML escaping.
SampleStrings == { <<>>, <<"a">>, <<"<">>, <<"&", "a">> }

\* Positions asked for deletion: negative, in range, at and beyond the end.
DeleteIds == (-2 .. MaxAdds + 1) \cup {10 + MaxAdds}

Workers == {1, 2}

-----------------------------------------------------------------------------
(* Python values and built-ins used by the handlers *)

PyNone == [isNone |-> TRUE, str |-> <<>>]

PyStr(s) == [isNone |-> FALSE, str |-> s]

\* `if task:` -- None and the empty string are falsy.
Truthy_isNotNone(v) == ~v.isNone

Truthy(v) == ~v.isNone /\ Len(v.str) > 0

\* request.form.get("task"): the field's value, or None when it is absent.
FormGet(fields, key) ==
    IF key = "task" /\ fields.present THEN PyStr(fields.value) ELSE PyNone

\* `0 <= task_id < len(tasks)`
InRange_inclusive(task_id, ts) == 0 <= task_id /\ task_id <= Len(ts)

InRange(task_id, ts) == 0 <= task_id /\ task_id < Len(ts)

\* list.pop(i): i counts from the end when negative; IndexError when
\* i is outside -len .. len-1, the list then being left as it was.
ListPop_last(ts, i) ==
    IF Len(ts) = 0
    THEN [raised |-> TRUE, result |-> ts]
    ELSE [raised |-> FALSE, result |-> SubSeq(ts, 1, Len(ts) - 1)]

ListPop(ts, i) ==
    LET n == Len(ts)
        k == IF i < 0 THEN i + n ELSE i
    IN  IF k < 0 \/ k >= n
        THEN [raised |-> TRUE, result |-> ts]
        ELSE [raised |-> FALSE,
              result |-> SubSeq(ts, 1, k) \o SubSeq(ts, k + 2, n)]

\* str(i) for an integer, as Jinja prints `{{ i }}`.
DigitChar(d) == <<"0", "1", "2", "3", "4", "5", "6", "7", "8", "9">>[d + 1]

RECURSIVE Digits(_)
Digits(n) ==
    IF n < 10 THEN <<DigitChar(n)>>
    ELSE Digits(n \div 10) \o <<DigitChar(n % 10)>>

IntToStr(i) == IF i < 0 THEN <<"-">> \o Digits(-i) ELSE Digits(i)

-----------------------------------------------------------------------------
(* Routing: the rules registered by the @app.route decorators *)

IsDigit(c) == c \in {"0", "1", "2", "3", "4", "5", "6", "7", "8", "9"}

DigitValue(c) == CHOOSE d \in 0..9 : DigitChar(d) = c

\* The `int` converter of `/delete/<int:task_id>` matches \d+ only:
\* a segment with a sign does not match the rule.
IntConverterMatches(s) == Len(s) > 0 /\ \A k \in 1..Len(s) : IsDigit(s[k])

\* ... and passes int(segment) to the view.
RECURSIVE StrToInt(_)
StrToInt(s) ==
    IF Len(s) = 0 THEN 0
    ELSE 10 * StrToInt(SubSeq(s, 1, Len(s) - 1)) + DigitValue(s[Len(s)])

\* url_for(endpoint) for the rules without arguments.
UrlFor(endpoint) ==
    CASE endpoint = "index"    -> "/"
      [] endpoint = "add_task" -> "/add"
      [] endpoint = "health"   -> "/health"

NoSeg == <<>>

NoForm == [present |-> FALSE, value |-> <<>>]

NoBody == [kind |-> "none"]

\* redirect(location): 302 Found with a Location header.
Redirect(url) == [status |-> 302, location |-> url, body |-> NoBody]

\* No rule matches the path: werkzeug answers 404 and calls no view.
NotFound == [status |-> 404, location |-> "", body |-> NoBody]

\* An exception escaping a view is answered with 500.
InternalServerError == [status |-> 500, location |-> "", body |-> NoBody]

-----------------------------------------------------------------------------
(* The template *)

\* Autoescaping of `{{ task }}`.
RECURSIVE Escape(_)
Escape(s) ==
    IF Len(s) = 0 THEN <<>>
    ELSE LET c == Head(s)
             e == CASE c = "&" -> <<"&", "a", "m", "p", ";">>
                    [] c = "<" -> <<"&", "l", "t", ";">>
                    [] c = ">" -> <<"&", "g", "t", ";">>
                    [] c = "'" -> <<"&", "#", "3", "9", ";">>
                    [] c = "\"" -> <<"&", "#", "3", "4", ";">>
                    [] OTHER   -> <<c>>
         IN  e \o Escape(Tail(s))

\* enumerate(tasks): the pairs (i, task), i counted from 0.
Enumerate_fromOne(ts) == [k \in 1..Len(ts) |-> <<k, ts[k]>>]

Enumerate(ts) == [k \in 1..Len(ts) |-> <<k - 1, ts[k]>>]

\* HTML_TEMPLATE: one <li> per pair with the escaped text and a form posting
\* to /delete/{{ i }}; the "No tasks yet" paragraph under `if not tasks`.
RenderTemplate(ts) ==
    LET pairs == Enumerate(ts)
    IN  [kind |-> "html",
         items |-> [k \in 1..Len(pairs) |->
                       [text   |-> Escape(pairs[k][2]),
                        method |-> "POST",
                        action |-> [prefix |-> "/delete/",
                                    seg |-> IntToStr(pairs[k][1])]]],
         empty_message |-> (Len(ts) = 0)]

-----------------------------------------------------------------------------
(* The views: each yields the list and the response it leaves behind *)

RECURSIVE Reverse(_)
Reverse(s) == IF Len(s) = 0 THEN <<>> ELSE Reverse(Tail(s)) \o <<Head(s)>>

index_reversing(ts) ==
    [tasks |-> Reverse(ts),
     response |-> [status |-> 200, location |-> "",
                   body |-> RenderTemplate(Reverse(ts))]]

index(ts) ==
    [tasks |-> ts,
     response |-> [status |-> 200, location |-> "", body |-> RenderTemplate(ts)]]

add_task_unguarded(ts, posted) ==
    LET task == FormGet(posted, "task")
    IN  [tasks |-> IF ~task.isNone THEN Append(ts, task.str) ELSE ts,
         response |-> Redirect(UrlFor("index"))]

add_task_prepend(ts, posted) ==
    LET task == FormGet(posted, "task")
    IN  [tasks |-> IF Truthy(task) THEN <<task.str>> \o ts ELSE ts,
         response |-> Redirect(UrlFor("index"))]

add_task(ts, posted) ==
    LET task == FormGet(posted, "task")
    IN  [tasks |-> IF Truthy(task) THEN Append(ts, task.str) ELSE ts,
         response |-> Redirect(UrlFor("index"))]

delete_task_oneBased(ts, task_id) ==
    IF 1 <= task_id /\ task_id <= Len(ts)
    THEN [tasks |-> ListPop(ts, task_id - 1).result,
          response |-> Redirect(UrlFor("index"))]
    ELSE [tasks |-> ts, response |-> Redirect(UrlFor("index"))]

delete_task(ts, task_id) ==
    IF InRange(task_id, ts)
    THEN LET r == ListPop(ts, task_id)
         IN  IF r.raised
             THEN [tasks |-> r.result, response |-> InternalServerError]
             ELSE [tasks |-> r.result, response |-> Redirect(UrlFor("index"))]
    ELSE [tasks |-> ts, response |-> Redirect(UrlFor("index"))]

health_countFromOne(ts) ==
    [tasks |-> ts,
     response |-> [status |-> 200, location |-> "",
                   body |-> [kind |-> "json", status |-> "healthy",
                             tasks_count |-> Len(ts) + 1]]]

health(ts) ==
    [tasks |-> ts,
     response |-> [status |-> 200, location |-> "",
                   body |-> [kind |-> "json", status |-> "healthy",
                             tasks_count |-> Len(ts)]]]

\* The URL map: the view a request is dispatched to, applied to the list.
Dispatch(ts, req) ==
    CASE req.method = "GET" /\ req.path.prefix = "/" /\ req.path.seg = NoSeg ->
            index(ts)
      [] req.method = "POST" /\ req.path.prefix = "/add" /\ req.path.seg = NoSeg ->
            add_task(ts, req.form)
      [] req.method = "POST" /\ req.path.prefix = "/delete/"
            /\ IntConverterMatches(req.path.seg) ->
            delete_task(ts, StrToInt(req.path.seg))
      [] req.method = "GET" /\ req.path.prefix = "/health" /\ req.path.seg = NoSeg ->
            health(ts)
      [] OTHER -> [tasks |-> ts, response |-> NotFound]

-----------------------------------------------------------------------------
(* Requests handled one at a time *)

Forms == {NoForm} \cup {[present |-> TRUE, value |-> s] : s \in SampleStrings}

DeleteSegments == {IntToStr(i) : i \in DeleteIds}

IsAdd(req) == req.method = "POST" /\ req.path.prefix = "/add"

IsDelete(req) == req.method = "POST" /\ req.path.prefix = "/delete/"

IsIndex(req) == req.method = "GET" /\ req.path.prefix = "/"

IsHealth(req) == req.method = "GET" /\ req.path.prefix = "/health"

NonEmptySubmission(req) ==
    IsAdd(req) /\ req.form.present /\ Len(req.form.value) > 0

NoRequest == [method |-> "", path |-> [prefix |-> "", seg |-> NoSeg], form |-> NoForm]

NoResponse == [status |-> 0, location |-> "", body |-> NoBody]

IdleRace ==
    /\ tasks0 = <<>>
    /\ wseg = [w \in Workers |-> NoSeg]
    /\ pc = [w \in Workers |-> "idle"]
    /\ lenAtCheck = [w \in Workers |-> 0]
    /\ lenAtPop = [w \in Workers |-> 0]
    /\ wresp = [w \in Workers |-> NoResponse]

Init ==
    /\ tasks = <<>>
    /\ request = NoRequest
    /\ response = NoResponse
    /\ before = <<>>
    /\ addRequests = 0
    /\ nonEmptyAdds = 0
    /\ deleteSeen = FALSE
    /\ IdleRace

Handle(req) ==
    LET r == Dispatch(tasks, req)
    IN  /\ tasks' = r.tasks
        /\ response' = r.response
        /\ request' = req
        /\ before' = tasks
        /\ addRequests' = IF IsAdd(req) THEN addRequests + 1 ELSE addRequests
        /\ nonEmptyAdds' =
              IF NonEmptySubmission(req) THEN nonEmptyAdds + 1 ELSE nonEmptyAdds
        /\ deleteSeen' = (deleteSeen \/ IsDelete(req))

Index ==
    /\ Handle([method |-> "GET", path |-> [prefix |-> "/", seg |-> NoSeg],
               form |-> NoForm])
    /\ UNCHANGED raceVars

AddTask ==
    /\ addRequests < MaxAdds
    /\ \E posted \in Forms :
          Handle([method |-> "POST", path |-> [prefix |-> "/add", seg |-> NoSeg],
                  form |-> posted])
    /\ UNCHANGED raceVars

DeleteTask ==
    /\ \E s \in DeleteSegments :
          Handle([method |-> "POST", path |-> [prefix |-> "/delete/", seg |-> s],
                  form |-> NoForm])
    /\ UNCHANGED raceVars

Health ==
    /\ Handle([method |-> "GET", path |-> [prefix |-> "/health", seg |-> NoSeg],
               form |-> NoForm])
    /\ UNCHANGED raceVars

Next == Index \/ AddTask \/ DeleteTask \/ Health

Spec == Init /\ [][Next]_vars

-----------------------------------------------------------------------------
(* Two delete requests handled by two threads of the development server.   *)
(* The comparison `0 <= task_id < len(tasks)` and the call                 *)
(* `tasks.pop(task_id)` are separate steps of a thread; nothing is locked. *)

NonEmptyStrings == {s \in SampleStrings : Len(s) > 0}

\* Lists the sequential program can hold: at most MaxAdds non-empty texts.
ReachableStores == UNION {[1..n -> NonEmptyStrings] : n \in 0..MaxAdds}

DeleteRequest(s) ==
    [method |-> "POST", path |-> [prefix |-> "/delete/", seg |-> s],
     form |-> NoForm]

InitRace ==
    /\ tasks \in ReachableStores
    /\ tasks0 = tasks
    /\ wseg \in [Workers -> DeleteSegments]
    /\ pc = [w \in Workers |-> "check"]
    /\ lenAtCheck = [w \in Workers |-> 0]
    /\ lenAtPop = [w \in Workers |-> 0]
    /\ wresp = [w \in Workers |-> NoResponse]
    /\ request = NoRequest
    /\ response = NoResponse
    /\ before = <<>>
    /\ addRequests = 0
    /\ nonEmptyAdds = 0
    /\ deleteSeen = FALSE

\* Routing and the `if` of delete_task: one read of len(tasks).
Check(w) ==
    /\ pc[w] = "check"
    /\ lenAtCheck' = [lenAtCheck EXCEPT ![w] = Len(tasks)]
    /\ IF ~IntConverterMatches(wseg[w])
       THEN /\ wresp' = [wresp EXCEPT ![w] = NotFound]
            /\ pc' = [pc EXCEPT ![w] = "done"]
       ELSE IF InRange(StrToInt(wseg[w]), tasks)
            THEN /\ pc' = [pc EXCEPT ![w] = "pop"]
                 /\ UNCHANGED wresp
            ELSE /\ wresp' = [wresp EXCEPT ![w] = Redirect(UrlFor("index"))]
                 /\ pc' = [pc EXCEPT ![w] = "done"]
    /\ UNCHANGED <<tasks, tasks0, wseg, lenAtPop>>
    /\ UNCHANGED seqVars

\* `tasks.pop(task_id)` on the list as it is now, then the redirect.
Pop(w) ==
    /\ pc[w] = "pop"
    /\ LET r == ListPop(tasks, StrToInt(wseg[w]))
       IN  /\ tasks' = r.result
           /\ wresp' = [wresp EXCEPT ![w] =
                          IF r.raised THEN InternalServerError
                          ELSE Redirect(UrlFor("index"))]
    /\ lenAtPop' = [lenAtPop EXCEPT ![w] = Len(tasks)]
    /\ pc' = [pc EXCEPT ![w] = "done"]
    /\ UNCHANGED <<tasks0, wseg, lenAtCheck>>
    /\ UNCHANGED seqVars

NextRace == \E w \in Workers : Check(w) \/ Pop(w)

SpecRace == InitRace /\ [][NextRace]_vars

\* The two requests handled one after the other, sa first.
SerialRun(ts, sa, sb) ==
    LET r1 == Dispatch(ts, DeleteRequest(sa))
        r2 == Dispatch(r1.tasks, DeleteRequest(sb))
    IN  [tasks |-> r2.tasks, first |-> r1.response, second |-> r2.response]

-----------------------------------------------------------------------------
(* Properties *)

\* The position a delete request names, sign included.
RequestedPosition ==
    LET s == request.path.seg
    IN  IF Len(s) > 0 /\ Head(s) = "-" THEN 0 - StrToInt(Tail(s)) ELSE StrToInt(s)

HasPrefix(s, p) == Len(s) >= Len(p) /\ SubSeq(s, 1, Len(p)) = p

Entities ==
    { [ent |-> <<"&", "a", "m", "p", ";">>, char |-> "&"],
      [ent |-> <<"&", "l", "t", ";">>, char |-> "<"],
      [ent |-> <<"&", "g", "t", ";">>, char |-> ">"],
      [ent |-> <<"&", "#", "3", "9", ";">>, char |-> "'"],
      [ent |-> <<"&", "#", "3", "4", ";">>, char |-> "\""] }

\* The text a browser shows for escaped character data.
RECURSIVE HtmlText(_)
HtmlText(s) ==
    IF Len(s) = 0 THEN <<>>
    ELSE IF \E e \in Entities : HasPrefix(s, e.ent)
         THEN LET e == CHOOSE x \in Entities : HasPrefix(s, x.ent)
              IN  <<e.char>> \o HtmlText(SubSeq(s, Len(e.ent) + 1, Len(s)))
         ELSE <<Head(s)>> \o HtmlText(Tail(s))

\* C1: a delete request for a position p with 0 <= p < count removes exactly
\* the task at p: the count drops by one, the tasks below p stay where they
\* were, and each task formerly at q > p is now at q - 1.
DeleteInRangeRemovesExactlyThat ==
    (IsDelete(request) /\ 0 <= RequestedPosition
                       /\ RequestedPosition < Len(before))
    => /\ Len(tasks) = Len(before) - 1
       /\ \A q \in 0 .. Len(before) - 1 :
             /\ q < RequestedPosition => tasks[q + 1] = before[q + 1]
             /\ q > RequestedPosition => tasks[q] = before[q + 1]

DeletedFromTheMiddle ==
    /\ IsDelete(request)
    /\ 0 < RequestedPosition
    /\ RequestedPosition < Len(before) - 1
    /\ Len(tasks) = Len(before) - 1
    /\ before[RequestedPosition] # before[RequestedPosition + 1]

\* C2: a delete request for a position out of range (negative, or >= count,
\* any position on the empty list) leaves the list as it was.
DeleteOutOfRangeChangesNothing ==
    (IsDelete(request) /\ (RequestedPosition < 0
                           \/ RequestedPosition >= Len(before)))
    => tasks = before

DeleteAtEndOfRangeHandled ==
    /\ IsDelete(request)
    /\ Len(before) > 0
    /\ RequestedPosition = Len(before)
    /\ tasks = before

\* C3: an add request with a non-empty text T makes the list one longer,
\* puts T at the last position and keeps every earlier task where it was.
AddAppendsAtTheEnd ==
    NonEmptySubmission(request)
    => /\ Len(tasks) = Len(before) + 1
       /\ tasks[Len(tasks)] = request.form.value
       /\ \A q \in 1 .. Len(before) : tasks[q] = before[q]

AddedBehindOtherTasks ==
    /\ NonEmptySubmission(request)
    /\ Len(before) >= 2
    /\ before[1] # request.form.value
    /\ tasks[Len(tasks)] = request.form.value

\* C4: while only add requests have changed the list, its length is the
\* number of add requests whose task field was present and non-empty, and an
\* add request with an empty or absent field leaves the list as it was.
CountIsNonEmptySubmissions ==
    /\ ~deleteSeen => Len(tasks) = nonEmptyAdds
    /\ (IsAdd(request) /\ ~NonEmptySubmission(request)) => tasks = before

MixedAddsCounted ==
    /\ ~deleteSeen
    /\ addRequests >= 3
    /\ nonEmptyAdds > 0
    /\ nonEmptyAdds < addRequests
    /\ IsAdd(request)
    /\ ~NonEmptySubmission(request)

\* C5: the health request answers 200 with status "healthy" and a
\* tasks_count equal to the length of the list at the time of the call.
HealthReportsCount ==
    IsHealth(request)
    => /\ response.status = 200
       /\ response.body.kind = "json"
       /\ response.body.status = "healthy"
       /\ response.body.tasks_count = Len(tasks)
       /\ response.body.tasks_count = Len(before)

HealthAfterAddsAndDeletes ==
    /\ IsHealth(request)
    /\ deleteSeen
    /\ Len(tasks) >= 2
    /\ response.body.tasks_count = Len(tasks)

\* C6: every add request and every delete request with an integer position
\* (in range, negative, or >= count) is answered with a 302 redirect to /.
AddAndDeleteAlwaysRedirect ==
    (IsAdd(request) \/ IsDelete(request)) => response = Redirect("/")

\* C7: every task held in the list is a non-empty string.
TasksAreNonEmpty == \A k \in 1 .. Len(tasks) : Len(tasks[k]) > 0

EmptySubmissionOnFilledList ==
    /\ IsAdd(request)
    /\ request.form.present
    /\ request.form.value = <<>>
    /\ Len(tasks) >= 1

\* C8: the index and health requests leave the list as it was; the list
\* differs from what it was only after an add or a delete request, and an
\* add request keeps every task already held at its position.
ReadsLeaveTheListAlone ==
    /\ (IsIndex(request) \/ IsHealth(request)) => tasks = before
    /\ tasks # before => (IsAdd(request) \/ IsDelete(request))
    /\ IsAdd(request) =>
          /\ Len(tasks) >= Len(before)
          /\ \A q \in 1 .. Len(before) : tasks[q] = before[q]

IndexOnSeveralTasks ==
    /\ IsIndex(request)
    /\ Len(tasks) >= 2
    /\ tasks[1] # tasks[Len(tasks)]
    /\ tasks = before

\* C9: the index page has one entry per task, in list order, showing the
\* task's text and posting to /delete/i for the task at position i; the
\* empty-state message is on the page exactly when the list is empty.
PageListsTheTasks ==
    IsIndex(request)
    => /\ response.body.kind = "html"
       /\ Len(response.body.items) = Len(tasks)
       /\ \A k \in 1 .. Len(tasks) :
             LET item == response.body.items[k]
             IN  /\ HtmlText(item.text) = tasks[k]
                 /\ item.method = "POST"
                 /\ item.action.prefix = "/delete/"
                 /\ IntConverterMatches(item.action.seg)
                 /\ StrToInt(item.action.seg) = k - 1
       /\ response.body.empty_message <=> (Len(tasks) = 0)

PageWithEscapedTask ==
    /\ IsIndex(request)
    /\ Len(tasks) >= 2
    /\ \E k \in 1 .. Len(tasks) :
          /\ tasks[k] = <<"<">>
          /\ response.body.items[k].text # tasks[k]
    /\ ~response.body.empty_message

\* C10: a delete whose removal is attempted at a position no longer in
\* range passed its range check against a length that another delete has
\* shortened since, and handling the same two requests one after the other,
\* in either order, never ends in that failure.
StaleCheckOutcomeIsNotSerial ==
    \A w \in Workers :
        wresp[w].status = 500
        => /\ lenAtPop[w] < lenAtCheck[w]
           /\ StrToInt(wseg[w]) >= lenAtPop[w]
           /\ \A a, b \in Workers :
                 a # b =>
                    LET run == SerialRun(tasks0, wseg[a], wseg[b])
                    IN  run.first.status # 500 /\ run.second.status # 500

RemovalAgainstStaleLength ==
    \E w \in Workers :
        /\ pc[w] = "done"
        /\ wresp[w].status = 500
        /\ lenAtCheck[w] > lenAtPop[w]

====
